---- MODULE Spec2Model ----
(***************************************************************************)
(* A model of class BeurerLight of homebridge-beurer-light (src/index.js): *)
(* the BLE connection lifecycle (connect, discovery, subscription, idle    *)
(* disconnect, lazy reconnect in send), the command framer, the            *)
(* notification decoder and the white/color lamp state.                    *)
(*                                                                         *)
(* JavaScript runs one callback at a time, so every action below is one    *)
(* run-to-completion step: a handler from its invocation to its first     *)
(* suspension, or one transport callback together with the continuations   *)
(* that its promise resolution wakes.                                      *)
(*                                                                         *)
(* null and undefined are modelled by 0 for handles and timer tokens.      *)
(***************************************************************************)
EXTENDS Integers, Sequences, FiniteSets, TLC

\* ---------------------------------------------------------------- bounds
\* Handler invocations (setLampOn, setBrightness, setHue, setSaturation).
MaxCalls == 2
\* Clock ticks per idle timeout period.
TicksPerTimeout == 1
\* Environment events in one behaviour, counted together: inbound
\* notifications, transport failures (link open, discovery, missing
\* characteristic, write) and expiries of the idle timer while a transport
\* operation is in flight. Expiries of the idle timer while nothing is in
\* flight are not counted.
MaxEnv == 1

\* ------------------------------------------------------------- constants
connectionTimeout == 5000

TickStep == connectionTimeout \div TicksPerTimeout

\* The arguments the handlers are invoked with.
BrightnessValues == {10}
HueValues == {120}
SaturationValues == {100}

\* The bytes of inbound frames: discriminator, on flag, brightness, RGB.
NotifDiscriminators == {1, 2}
NotifOnFlags == {0, 1}
NotifBrightness == {30}
NotifColors == {<<0, 0, 255>>}

\* ------------------------------------------------------- pure functions
Min2(a, b) == IF a < b THEN a ELSE b
Max2(a, b) == IF a > b THEN a ELSE b

RECURSIVE BitXor(_, _)
\* a ^ b on non-negative integers.
BitXor(a, b) ==
  IF a = 0 THEN b
  ELSE IF b = 0 THEN a
  ELSE (((a % 2) + (b % 2)) % 2) + 2 * BitXor(a \div 2, b \div 2)

RECURSIVE checkCodeLoop_inclusive(_, _, _, _, _)
\* The loop of checkCode running one index too far (i <= finish - start).
checkCodeLoop_inclusive(i, b, start, finish, bytes) ==
  IF i <= finish - start
  THEN checkCodeLoop_inclusive(i + 1, BitXor(bytes[start + i + 1], b),
                               start, finish, bytes)
  ELSE b

RECURSIVE checkCodeLoop(_, _, _, _, _)
\* The loop of checkCode: i runs while i < finish - start, folding
\* bytes[start + i] (0-based; Seq index start + i + 1) into b.
checkCodeLoop(i, b, start, finish, bytes) ==
  IF i < finish - start
  THEN checkCodeLoop(i + 1, BitXor(bytes[start + i + 1], b), start, finish, bytes)
  ELSE b

checkCode(start, finish, bytes) == checkCodeLoop(start, 0, start, finish, bytes)

\* getBytes: the length marker, the checksum slot, the header and the terminator.
getBytes(input) ==
  LET n == Len(input)
      withLen == [input EXCEPT ![1] = n - 1]
      inputBytes == [withLen EXCEPT ![n - 1] = checkCode(0, n - 2, withLen)]
  IN <<254, 239, 10, n + 8 - 4, 171, 170>> \o inputBytes \o <<13, 10>>

\* Math.round of num/den for den > 0.
RoundDiv(num, den) == (2 * num + den) \div (2 * den)

\* convert.rgb.hsl(r, g, b) of color-convert, rounded: <<h, s, l>>.
rgbToHsl(r, g, b) ==
  LET min == Min2(r, Min2(g, b))
      max == Max2(r, Max2(g, b))
      delta == max - min
      \* h * 60 * delta
      raw == IF max = min THEN 0
             ELSE IF r = max THEN 60 * (g - b)
             ELSE IF g = max THEN 120 * delta + 60 * (b - r)
             ELSE 240 * delta + 60 * (r - g)
      d == IF delta = 0 THEN 1 ELSE delta
      capped == IF raw > 360 * d THEN 360 * d ELSE raw
      hnum == IF capped < 0 THEN capped + 360 * d ELSE capped
      h == RoundDiv(hnum, d)
      s == IF max = min THEN 0
           ELSE IF min + max <= 255 THEN RoundDiv(100 * delta, max + min)
           ELSE RoundDiv(100 * delta, 510 - max - min)
      l == RoundDiv(100 * (min + max), 510)
  IN <<h, s, l>>

\* One channel of convert.hsl.rgb at lightness 50: t3 in degrees, the value
\* times 255 as the fraction num/6000.
hslChannel(h, s, i) ==
  LET t0 == h + 120 * (1 - i)
      t1 == IF t0 < 0 THEN t0 + 360 ELSE t0
      t3 == IF t1 > 360 THEN t1 - 360 ELSE t1
      lo == (100 - s) * 30
      num == IF 6 * t3 < 360 THEN lo + s * t3
             ELSE IF 2 * t3 < 360 THEN (100 + s) * 30
             ELSE IF 3 * t3 < 720 THEN lo + s * (240 - t3)
             ELSE lo
  IN RoundDiv(255 * num, 6000)

\* convert.hsl.rgb(h, s, 50) of color-convert, rounded.
hslToRgb(h, s) ==
  IF s = 0 THEN <<128, 128, 128>>
  ELSE <<hslChannel(h, s, 0), hslChannel(h, s, 1), hslChannel(h, s, 2)>>

\* ------------------------------------------------------------------ state
VARIABLES
  light,      \* the fields of the BeurerLight object (constructor, lines 111-124)
  link,       \* the BLE link of the peripheral: open, epoch (count of opens),
              \* notify (epoch whose notify characteristic is subscribed, 0 none)
  timers,     \* the pending setTimeout timers: records [id, left]
  transport,  \* the frames handed to lampControl.write, in order
  calls,      \* the set-handler invocations, in invocation order, each with
              \* the send() it awaits and the connect() that send awaits
  attach,     \* the connect() that setPeripheral started and nobody awaits
  nsends,     \* number of send() invocations so far
  sinceReset, \* time since the latest send() write or notification (capped)
  env,        \* what the environment has done: notifications delivered,
              \* transport failures, idle expiries during a transport operation
  homekit,    \* the characteristic values last pushed to the platform by
              \* updateHomeKitState (pushed is FALSE before the first push)
  input,      \* the payload handed to getBytes on its own (<<>> when none)
  framed      \* what getBytes returned for it (<<>> before the call)

vars ==
  <<light, link, timers, transport, calls, attach, nsends, sinceReset, env,
    homekit, input, framed>>

\* The whole state as one record, so that the methods compose as functions.
World ==
  [light |-> light, link |-> link, timers |-> timers, transport |-> transport,
   calls |-> calls, attach |-> attach, nsends |-> nsends,
   sinceReset |-> sinceReset, homekit |-> homekit]

Commit(W) ==
  \E N \in {W} :
    /\ light' = N.light
    /\ link' = N.link
    /\ timers' = N.timers
    /\ transport' = N.transport
    /\ calls' = N.calls
    /\ attach' = N.attach
    /\ nsends' = N.nsends
    /\ sinceReset' = N.sinceReset
    /\ homekit' = N.homekit
    /\ UNCHANGED <<input, framed>>

\* A connect() invocation: pc is "opening", "discovering", "subscribing"
\* while its promise is pending; "returned" (no peripheral), "resolved",
\* "rejected" or "threw" (the listener threw before resolve) afterwards.
NoConn == [pc |-> "none", err |-> "none"]

\* A send() invocation: pc is "connecting" (awaits connect) or "writing"
\* (awaits the write callback); nconn counts the connect() calls it made.
NoSend ==
  [id |-> 0, bytes |-> <<>>, pc |-> "none", startConnected |-> FALSE,
   nconn |-> 0, conn |-> NoConn]

\* The constructor of BeurerLight.
Constructed ==
  /\ light = [peripheral |-> FALSE, lampControl |-> 0, connected |-> FALSE,
              connectionTimeoutToken |-> 0,
              hue |-> 0, saturation |-> 0,
              whiteBrightness |-> 50, colorBrightness |-> 50,
              whiteOn |-> FALSE, colorOn |-> FALSE, whichLampToControl |-> 1]
  /\ link = [open |-> FALSE, epoch |-> 0, notify |-> 0]
  /\ timers = {}
  /\ transport = <<>>
  /\ calls = <<>>
  /\ attach = NoConn
  /\ nsends = 0
  /\ sinceReset = connectionTimeout
  /\ env = [notifs |-> 0, faults |-> 0, busyFires |-> 0]
  /\ homekit = [pushed |-> FALSE, On |-> FALSE, Brightness |-> 0,
                Hue |-> 0, Saturation |-> 0]

Init == Constructed /\ input = <<>> /\ framed = <<>>

\* ------------------------------------------------------ connection manager
\* setTimeout returns an id that no pending timer carries.
NewTimerId(pending) ==
  LET used == {t.id : t \in pending}
  IN CHOOSE i \in 1..(Cardinality(used) + 1) :
       i \notin used /\ \A j \in 1..(i - 1) : j \in used

\* resetConnectionTimeout without the clearTimeout of lines 268-270.
resetConnectionTimeout_noClear(W) ==
  LET id == NewTimerId(W.timers)
  IN [W EXCEPT !.timers = @ \cup {[id |-> id, left |-> connectionTimeout]},
               !.light.connectionTimeoutToken = id]

\* resetConnectionTimeout: clear the held token, arm a new timer.
resetConnectionTimeout(W) ==
  LET token == W.light.connectionTimeoutToken
      kept == IF token # 0 THEN {t \in W.timers : t.id # token} ELSE W.timers
      id == NewTimerId(kept)
  IN [W EXCEPT !.timers = kept \cup {[id |-> id, left |-> connectionTimeout]},
               !.light.connectionTimeoutToken = id]

\* disconnect: close the link if a peripheral is attached and connected is set.
disconnect(W) ==
  IF W.light.peripheral /\ W.light.connected
  THEN [W EXCEPT !.link.open = FALSE, !.light.connected = FALSE]
  ELSE W

\* lampControl.write(buffer, true, cb): the frame reaches the transport.
\* by is the id of the send() that wrote it, 0 for requestState.
write(W, frame, by) ==
  [W EXCEPT !.transport = Append(@, [frame |-> frame, by |-> by])]

\* The connect() that owner awaits: a handler call's send, or 0 for the
\* one setPeripheral started.
ConnOf(W, owner) == IF owner = 0 THEN W.attach ELSE W.calls[owner].send.conn

SetConn(W, owner, conn) ==
  IF owner = 0 THEN [W EXCEPT !.attach = conn]
  ELSE [W EXCEPT !.calls[owner].send.conn = conn]

\* connect(): without a peripheral it logs and returns (the promise resolves
\* with undefined); otherwise peripheral.connect is called and the promise
\* stays pending.
connect(W, owner) ==
  SetConn(W, owner,
    [pc |-> IF W.light.peripheral THEN "opening" ELSE "returned", err |-> "none"])

\* The guard of send(): connected and a control handle held.
IsConnected(W) == W.light.connected /\ W.light.lampControl # 0

\* send() from line 308 on: reset the idle timer, frame the bytes and write.
\* A null lampControl makes the write throw, which rejects the promise.
sendWrite(W, c) ==
  LET W1 == resetConnectionTimeout(W)
  IN IF W1.light.lampControl = 0
     THEN [W1 EXCEPT !.calls[c].send.pc = "rejected",
                     !.calls[c].err = "TypeError"]
     ELSE [write(W1, getBytes(W1.calls[c].send.bytes), W1.calls[c].send.id)
             EXCEPT !.calls[c].send.pc = "writing", !.sinceReset = 0]

\* send() with the await of line 305 dropped: connect() is started and the
\* write goes out at once.
send_noAwait(W, c, bytes) ==
  LET W1 == [W EXCEPT !.nsends = @ + 1,
                      !.calls[c].send =
                        [id |-> W.nsends + 1, bytes |-> bytes, pc |-> "connecting",
                         startConnected |-> IsConnected(W),
                         nconn |-> 0, conn |-> NoConn],
                      !.calls[c].emitted =
                        Append(@, [id |-> W.nsends + 1, bytes |-> bytes])]
  IN IF ~IsConnected(W)
     THEN sendWrite([connect(W1, c) EXCEPT !.calls[c].send.nconn = @ + 1], c)
     ELSE sendWrite(W1, c)

\* send(bytes) up to its first suspension, invoked by handler call c.
send(W, c, bytes) ==
  LET W1 == [W EXCEPT !.nsends = @ + 1,
                      !.calls[c].send =
                        [id |-> W.nsends + 1, bytes |-> bytes, pc |-> "connecting",
                         startConnected |-> IsConnected(W),
                         nconn |-> 0, conn |-> NoConn],
                      !.calls[c].emitted =
                        Append(@, [id |-> W.nsends + 1, bytes |-> bytes])]
  IN IF ~IsConnected(W)
     THEN [connect(W1, c) EXCEPT !.calls[c].send.nconn = @ + 1]
     ELSE sendWrite(W1, c)

\* ------------------------------------------------------------ lamp state
\* A handler invocation enters calls; pc is where it is suspended:
\* "enable" (setRgb awaits the color-enable send), "final" (it awaits its
\* last send), "done" (returned), "failed" (it threw err). colorOnAtCall
\* and emitted (the send() invocations it made) record its history.
newCall(W, op, arg) ==
  [W EXCEPT !.calls = Append(@,
     [op |-> op, arg |-> arg, pc |-> "final", send |-> NoSend,
      colorOnAtCall |-> W.light.colorOn, err |-> "none", emitted |-> <<>>])]

\* setRgbTail without line 394: the white channel is left as it was.
setRgbTail_keepsWhite(W, c) ==
  LET W1 == [W EXCEPT !.light.colorOn = TRUE, !.calls[c].pc = "final"]
      rgb == hslToRgb(W1.light.hue, W1.light.saturation)
  IN send(W1, c, <<0, 50, rgb[1], rgb[2], rgb[3], 0, 85>>)

\* setRgb from line 393 on: color on, white off, convert and send.
setRgbTail(W, c) ==
  LET W1 == [W EXCEPT !.light.colorOn = TRUE, !.light.whiteOn = FALSE,
                      !.calls[c].pc = "final"]
      rgb == hslToRgb(W1.light.hue, W1.light.saturation)
  IN send(W1, c, <<0, 50, rgb[1], rgb[2], rgb[3], 0, 85>>)

\* setRgb that sends the color-enable command whatever colorOn is.
setRgb_alwaysEnable(W, c) ==
  send([W EXCEPT !.calls[c].pc = "enable"], c, <<4, 55, 2, 0, 85>>)

\* setRgb: the color-enable send first when the color channel is off.
setRgb(W, c) ==
  IF ~W.light.colorOn
  THEN send([W EXCEPT !.calls[c].pc = "enable"], c, <<4, 55, 2, 0, 85>>)
  ELSE setRgbTail(W, c)

\* setLampOn without the early return of lines 330-333.
setLampOn_noEarlyReturn(W, value) ==
  LET c == Len(W.calls) + 1
      W0 == newCall(W, "setLampOn", value)
      which == IF ~value /\ W.light.colorOn THEN 2 ELSE 1
      W1 == [W0 EXCEPT !.light.whichLampToControl = which,
                       !.light.whiteOn = value,
                       !.light.colorOn = FALSE]
      onOffBit == IF value THEN 55 ELSE 53
  IN send(W1, c, <<0, onOffBit, W1.light.whichLampToControl, 0, 85>>)

\* setLampOn without lines 336-338: the white channel is always selected.
setLampOn_alwaysWhite(W, value) ==
  LET c == Len(W.calls) + 1
      W0 == newCall(W, "setLampOn", value)
      W1 == [W0 EXCEPT !.light.whichLampToControl = 1,
                       !.light.whiteOn = value,
                       !.light.colorOn = FALSE]
      onOffBit == IF value THEN 55 ELSE 53
  IN IF value /\ W.light.colorOn
     THEN [W0 EXCEPT !.calls[c].pc = "done"]
     ELSE send(W1, c, <<0, onOffBit, W1.light.whichLampToControl, 0, 85>>)

setLampOn(W, value) ==
  LET c == Len(W.calls) + 1
      W0 == newCall(W, "setLampOn", value)
      which == IF ~value /\ W.light.colorOn THEN 2 ELSE 1
      W1 == [W0 EXCEPT !.light.whichLampToControl = which,
                       !.light.whiteOn = value,
                       !.light.colorOn = FALSE]
      onOffBit == IF value THEN 55 ELSE 53
  IN IF value /\ W.light.colorOn
     THEN [W0 EXCEPT !.calls[c].pc = "done"]
     ELSE send(W1, c, <<0, onOffBit, W1.light.whichLampToControl, 0, 85>>)

setBrightness(W, value) ==
  LET c == Len(W.calls) + 1
      W0 == newCall(W, "setBrightness", value)
      W1 == IF W.light.colorOn
            THEN [W0 EXCEPT !.light.colorBrightness = value,
                            !.light.whichLampToControl = 2]
            ELSE [W0 EXCEPT !.light.whiteBrightness = value,
                            !.light.whichLampToControl = 1]
  IN send(W1, c, <<0, 49, W1.light.whichLampToControl, value, 0, 85>>)

setHue(W, value) ==
  LET c == Len(W.calls) + 1
      W0 == newCall(W, "setHue", value)
  IN setRgb([W0 EXCEPT !.light.hue = value], c)

setSaturation(W, value) ==
  LET c == Len(W.calls) + 1
      W0 == newCall(W, "setSaturation", value)
  IN setRgb([W0 EXCEPT !.light.saturation = value], c)

\* ---------------------------------------------------------- continuations
\* The handler c resumes after its awaited send() settled: a rejection
\* throws out of the handler; after the enable send setRgb goes on.
resumeCall(W, c) ==
  IF W.calls[c].send.pc = "rejected"
  THEN [W EXCEPT !.calls[c].pc = "failed", !.calls[c].send = NoSend]
  ELSE IF W.calls[c].pc = "enable"
  THEN setRgbTail(W, c)
  ELSE [W EXCEPT !.calls[c].pc = "done", !.calls[c].send = NoSend]

\* send() that swallows the rejection of connect() and goes on to the reset
\* and the write.
sendAfterConnect_swallows(W, c) ==
  LET W1 == sendWrite(W, c)
  IN IF W1.calls[c].send.pc = "rejected" THEN resumeCall(W1, c) ELSE W1

\* send() resumes after "await this.connect()": a rejection propagates,
\* anything else falls through to the reset and the write.
sendAfterConnect(W, c) ==
  LET k == W.calls[c].send.conn
      W1 == IF k.pc = "rejected"
            THEN [W EXCEPT !.calls[c].send.pc = "rejected", !.calls[c].err = k.err]
            ELSE sendWrite(W, c)
  IN IF W1.calls[c].send.pc = "rejected" THEN resumeCall(W1, c) ELSE W1

\* The promise of a connect() settles (resolve or reject) and wakes the
\* send() that awaits it.
settleConn(W, owner, pc, err) ==
  LET W1 == SetConn(W, owner, [pc |-> pc, err |-> err])
  IN IF owner # 0 THEN sendAfterConnect(W1, owner) ELSE W1

\* The callback of peripheral.connect (lines 168-178).
linkOpened(W, owner, ok) ==
  IF ~ok
  THEN settleConn(W, owner, "rejected", "ConnectError")
  ELSE SetConn([W EXCEPT !.light.connected = TRUE,
                         !.link.open = TRUE,
                         !.link.epoch = IF W.link.open THEN @ ELSE @ + 1],
               owner, [pc |-> "discovering", err |-> "none"])

\* The callback of discoverAllServicesAndCharacteristics (lines 178-197).
discovered(W, owner, ok, hasControl, hasNotify) ==
  IF ~ok
  THEN settleConn(W, owner, "rejected", "DiscoveryError")
  ELSE LET W1 == [W EXCEPT !.light.lampControl =
                     IF hasControl THEN W.link.epoch ELSE 0]
       IN IF ~hasControl \/ ~hasNotify
          THEN settleConn(W1, owner, "rejected", "MissingCharacteristics")
          ELSE SetConn([W1 EXCEPT !.link.notify = W.link.epoch],
                       owner, [pc |-> "subscribing", err |-> "none"])

whiteStatusCmd == <<254, 239, 10, 9, 171, 170, 4, 48, 1, 53, 85, 13, 10>>
colorStatusCmd == <<254, 239, 10, 9, 171, 170, 4, 48, 2, 54, 85, 13, 10>>

\* requestState with its two writes in the other order.
requestState_colorFirst(W) == write(write(W, colorStatusCmd, 0), whiteStatusCmd, 0)

\* requestState: two writes that bypass send().
requestState(W) == write(write(W, whiteStatusCmd, 0), colorStatusCmd, 0)

\* The 'notify' event (lines 198-202). A null lampControl makes requestState
\* throw inside the listener, and resolve() is never reached.
notifyReady(W, owner) ==
  IF W.light.lampControl = 0
  THEN SetConn(W, owner, [pc |-> "threw", err |-> "TypeError"])
  ELSE settleConn(requestState(W), owner, "resolved", "none")

\* The callback of lampControl.write in send() (lines 314-321).
writeDone(W, c, ok) ==
  LET W1 == IF ok THEN [W EXCEPT !.calls[c].send.pc = "resolved"]
            ELSE [W EXCEPT !.calls[c].send.pc = "rejected",
                           !.calls[c].err = "WriteError"]
  IN resumeCall(W1, c)

\* getBrightness of a lamp with fields l.
getBrightness(l) == IF l.colorOn THEN l.colorBrightness ELSE l.whiteBrightness

\* updateHomeKitState: the four values pushed to the Lightbulb service.
updateHomeKitState(W) ==
  [W EXCEPT !.homekit =
     [pushed |-> TRUE,
      On |-> W.light.whiteOn \/ W.light.colorOn,
      Brightness |-> IF W.light.whiteOn THEN W.light.whiteBrightness
                     ELSE W.light.colorBrightness,
      Hue |-> W.light.hue,
      Saturation |-> W.light.saturation]]

\* An inbound frame: 16 bytes at offsets 0..15.
NotifFrame(disc, on, bri, rgb) ==
  [i \in 0..15 |->
     IF i = 8 THEN disc ELSE IF i = 9 THEN on ELSE IF i = 10 THEN bri
     ELSE IF i = 13 THEN rgb[1] ELSE IF i = 14 THEN rgb[2]
     ELSE IF i = 15 THEN rgb[3] ELSE 0]

NotifFrames ==
  {NotifFrame(d, o, b, c) : d \in NotifDiscriminators, o \in NotifOnFlags,
                            b \in NotifBrightness, c \in NotifColors}

\* handleNotification that also enforces the exclusion of the two channels:
\* a channel reported on switches the other one off.
handleNotification_exclusive(W, data) ==
  LET hsl == rgbToHsl(data[13], data[14], data[15])
      W1 == IF data[8] = 2
            THEN [W EXCEPT !.light.colorBrightness = data[10],
                           !.light.colorOn = (data[9] = 1),
                           !.light.whiteOn = @ /\ data[9] # 1,
                           !.light.hue = hsl[1],
                           !.light.saturation = hsl[2]]
            ELSE [W EXCEPT !.light.whiteBrightness = data[10],
                           !.light.whiteOn = (data[9] = 1),
                           !.light.colorOn = @ /\ data[9] # 1]
  IN [resetConnectionTimeout(updateHomeKitState(W1)) EXCEPT !.sinceReset = 0]

handleNotification(W, data) ==
  LET hsl == rgbToHsl(data[13], data[14], data[15])
      W1 == IF data[8] = 2
            THEN [W EXCEPT !.light.colorBrightness = data[10],
                           !.light.colorOn = (data[9] = 1),
                           !.light.hue = hsl[1],
                           !.light.saturation = hsl[2]]
            ELSE [W EXCEPT !.light.whiteBrightness = data[10],
                           !.light.whiteOn = (data[9] = 1)]
  IN [resetConnectionTimeout(updateHomeKitState(W1)) EXCEPT !.sinceReset = 0]

\* ---------------------------------------------------------------- actions
Owners == {0} \cup DOMAIN calls

\* A send() whose connect() returned at once resumes in a microtask: until
\* then only further synchronous invocations can run, no I/O callback.
MicrotaskPending(c) ==
  /\ calls[c].send.pc = "connecting"
  /\ calls[c].send.conn.pc = "returned"

Drained == \A c \in DOMAIN calls : ~MicrotaskPending(c)

\* A transport operation is in flight.
Busy ==
  \/ \E o \in Owners : ConnOf(World, o).pc \in {"opening", "discovering", "subscribing"}
  \/ \E c \in DOMAIN calls : calls[c].send.pc = "writing"

EnvUsed == env.notifs + env.faults + env.busyFires

\* The transport may fail an operation while the budget lasts.
Outcome(ok) ==
  /\ ~ok => EnvUsed < MaxEnv
  /\ env' = IF ok THEN env ELSE [env EXCEPT !.faults = @ + 1]

\* setPeripheral without line 156: the handle is recorded, connect() is not
\* called.
SetPeripheral_recordOnly ==
  /\ Drained
  /\ ~light.peripheral
  /\ Commit([World EXCEPT !.light.peripheral = TRUE])
  /\ UNCHANGED env

SetPeripheral ==
  /\ Drained
  /\ ~light.peripheral
  /\ Commit(connect([World EXCEPT !.light.peripheral = TRUE], 0))
  /\ UNCHANGED env

SetLampOn ==
  /\ Len(calls) < MaxCalls
  /\ \E value \in BOOLEAN : Commit(setLampOn(World, value))
  /\ UNCHANGED env

SetBrightness ==
  /\ Len(calls) < MaxCalls
  /\ \E value \in BrightnessValues : Commit(setBrightness(World, value))
  /\ UNCHANGED env

SetHue ==
  /\ Len(calls) < MaxCalls
  /\ \E value \in HueValues : Commit(setHue(World, value))
  /\ UNCHANGED env

SetSaturation ==
  /\ Len(calls) < MaxCalls
  /\ \E value \in SaturationValues : Commit(setSaturation(World, value))
  /\ UNCHANGED env

SendResume ==
  /\ \E c \in DOMAIN calls :
       /\ MicrotaskPending(c)
       /\ Commit(sendAfterConnect(World, c))
  /\ UNCHANGED env

LinkOpened ==
  /\ Drained
  /\ \E o \in Owners, ok \in BOOLEAN :
       /\ ConnOf(World, o).pc = "opening"
       /\ Outcome(ok)
       /\ Commit(linkOpened(World, o, ok))

Discovered ==
  /\ Drained
  /\ \E o \in Owners, ok \in BOOLEAN, hasControl \in BOOLEAN, hasNotify \in BOOLEAN :
       /\ ConnOf(World, o).pc = "discovering"
       /\ ~ok => hasControl /\ hasNotify
       /\ Outcome(ok /\ hasControl /\ hasNotify)
       /\ Commit(discovered(World, o, ok, hasControl, hasNotify))

NotifyReady ==
  /\ Drained
  /\ \E o \in Owners :
       /\ ConnOf(World, o).pc = "subscribing"
       /\ Commit(notifyReady(World, o))
  /\ UNCHANGED env

WriteDone ==
  /\ Drained
  /\ \E c \in DOMAIN calls, ok \in BOOLEAN :
       /\ calls[c].send.pc = "writing"
       /\ Outcome(ok)
       /\ Commit(writeDone(World, c, ok))

\* The device notifies while the link is open and the notify characteristic
\* of this link is subscribed.
NotificationWith(data) ==
  /\ Drained
  /\ EnvUsed < MaxEnv
  /\ link.open /\ link.notify # 0 /\ link.notify = link.epoch
  /\ Commit(handleNotification(World, data))
  /\ env' = [env EXCEPT !.notifs = @ + 1]

Notification == \E data \in NotifFrames : NotificationWith(data)

\* The idle timer's callback: () => this.disconnect().
TimerExpires ==
  /\ Drained
  /\ \E t \in timers :
       /\ t.left = 0
       /\ Commit(disconnect([World EXCEPT !.timers = @ \ {t}]))

\* The expiry, counted as an environment event when it falls into a
\* transport operation.
TimerFire ==
  /\ Busy => EnvUsed < MaxEnv
  /\ TimerExpires
  /\ env' = IF Busy THEN [env EXCEPT !.busyFires = @ + 1] ELSE env

\* The expiry, not counted.
IdleTimerFire ==
  /\ TimerExpires
  /\ UNCHANGED env

\* Time passes while a timer counts down.
Tick ==
  /\ Drained
  /\ \E t \in timers : t.left > 0
  /\ timers' = {[t EXCEPT !.left = Max2(0, @ - TickStep)] : t \in timers}
  /\ sinceReset' = Min2(connectionTimeout, sinceReset + TickStep)
  /\ UNCHANGED <<light, link, transport, calls, attach, nsends, env>>
  /\ UNCHANGED <<homekit, input, framed>>

Next ==
  \/ SetPeripheral
  \/ SetLampOn
  \/ SetBrightness
  \/ SetHue
  \/ SetSaturation
  \/ SendResume
  \/ LinkOpened
  \/ Discovered
  \/ NotifyReady
  \/ WriteDone
  \/ Notification
  \/ TimerFire
  \/ Tick

Spec == Init /\ [][Next]_vars

\* The idle timer's behaviours: setBrightness is the one command that is
\* sent, and the timer may expire at any point.
IdleNext ==
  \/ SetPeripheral
  \/ SetBrightness
  \/ SendResume
  \/ LinkOpened
  \/ Discovered
  \/ NotifyReady
  \/ WriteDone
  \/ Notification
  \/ IdleTimerFire
  \/ Tick

\* A timer that is not cleared fires, time advances, and a pending microtask
\* runs before any other callback.
FairSpec ==
  /\ Init /\ [][IdleNext]_vars
  /\ WF_vars(IdleTimerFire) /\ WF_vars(Tick) /\ WF_vars(SendResume)

\* ------------------------------------------------------ the framer alone
\* getBytes applied to payloads of 3 to MaxPayloadLen bytes: every sequence
\* over PayloadBytes, and the payloads of the on command and of the two
\* status requests.
MaxPayloadLen == 7

PayloadBytes == {0, 85, 255}

CommandPayloads == {<<0, 55, 1, 0, 85>>, <<0, 48, 1, 0, 85>>, <<0, 48, 2, 0, 85>>}

Payloads ==
  CommandPayloads \cup UNION {[1..n -> PayloadBytes] : n \in 3..MaxPayloadLen}

FramerInit == Constructed /\ input \in Payloads /\ framed = <<>>

GetBytes ==
  /\ framed = <<>>
  /\ framed' = getBytes(input)
  /\ UNCHANGED <<light, link, timers, transport, calls, attach, nsends,
                 sinceReset, env, homekit, input>>

FramerNext == GetBytes

FramerSpec == FramerInit /\ [][FramerNext]_vars

\* ----------------------------------------------------------------- claims
\* C1: as long as no notification has been handled, whatever set handlers
\* were invoked, however they interleave at their awaits and whether the
\* transport fails or not, whiteOn and colorOn are never both true.
C1_NeverBothOnWithoutNotifications ==
  env.notifs = 0 => ~(light.whiteOn /\ light.colorOn)

\* setHue suspended on its enable send, setLampOn(true) turned the white
\* channel on meanwhile, and setHue went on to turn the color channel on.
C1_Witness ==
  /\ env.notifs = 0
  /\ Len(calls) = 2
  /\ calls[1].op = "setHue" /\ calls[1].pc \in {"final", "done"}
  /\ calls[2].op = "setLampOn" /\ calls[2].arg = TRUE
  /\ ~calls[2].colorOnAtCall
  /\ Len(calls[2].emitted) = 1 /\ calls[2].emitted[1].id < calls[1].emitted[2].id
  /\ light.colorOn /\ ~light.whiteOn

\* C2: in every reachable state, notifications included, at most one of
\* whiteOn and colorOn is true.
C2_AtMostOneOn == ~(light.whiteOn /\ light.colorOn)

\* C3: a send() invoked with the guard of line 303 false (not connected, or
\* no control handle) calls connect() exactly once and writes only after
\* that connect() resolved; a send() invoked while connected calls no
\* connect().
C3_SendConnectsOnceBeforeWrite ==
  \A c \in DOMAIN calls :
    LET s == calls[c].send
    IN s.pc \in {"connecting", "writing"} =>
         /\ s.startConnected => s.nconn = 0 /\ s.pc = "writing"
         /\ ~s.startConnected =>
              /\ s.nconn = 1
              /\ s.pc = "writing" => s.conn.pc = "resolved"

\* One send() has written after its lazy connect resolved, another wrote
\* without connecting.
C3_Witness ==
  \E c1, c2 \in DOMAIN calls :
    /\ calls[c1].send.pc = "writing" /\ ~calls[c1].send.startConnected
    /\ calls[c1].send.conn.pc = "resolved"
    /\ calls[c2].send.pc = "writing" /\ calls[c2].send.startConnected
    /\ calls[c2].send.nconn = 0

\* A step in which a send() reached the transport write.
SendWrote ==
  \E i \in (Len(transport) + 1)..Len(transport') : transport'[i].by # 0

\* A step in which a notification was handled.
NotifHandled == env'.notifs = env.notifs + 1

\* After the step exactly one timer is pending, it is the held token and it
\* has the full timeout period to run.
Rearmed ==
  \E t \in timers' :
    /\ timers' = {t}
    /\ t.left = connectionTimeout
    /\ light'.connectionTimeoutToken = t.id

\* C5: at most one idle timer is pending at any time; every send() that
\* reaches the write and every notification leaves exactly one timer, armed
\* for the full period; and connected never falls less than a full timeout
\* period after the latest such write or notification.
C5_SingleIdleTimer ==
  /\ [](Cardinality(timers) <= 1)
  /\ [][(SendWrote \/ NotifHandled) => Rearmed]_vars
  /\ [][(light.connected /\ ~light'.connected)
          => sinceReset >= connectionTimeout]_vars

\* Two sends have written, the second re-arming the timer of the first, and
\* the idle timer has then disconnected.
C5_Witness ==
  /\ Cardinality({i \in DOMAIN transport : transport[i].by # 0}) >= 2
  /\ light.peripheral /\ ~light.connected /\ ~link.open /\ link.epoch >= 1
  /\ timers = {}
  /\ sinceReset >= connectionTimeout

\* The step is the invocation of handler op.
Invoked(op) ==
  /\ Len(calls') = Len(calls) + 1
  /\ calls'[Len(calls')].op = op

\* C6: setLampOn(true) invoked while colorOn is true changes no field of
\* the lamp, nothing of the connection (link, timers, pending connects) and
\* writes no frame.
C6_OnWhileColorOnIsNoOp ==
  [][(/\ Invoked("setLampOn")
      /\ calls'[Len(calls')].arg = TRUE
      /\ light.colorOn)
     => /\ light' = light
        /\ link' = link
        /\ timers' = timers
        /\ attach' = attach
        /\ transport' = transport
        /\ nsends' = nsends
        /\ calls'[Len(calls')].pc = "done"
        /\ calls'[Len(calls')].emitted = <<>>]_vars

\* setLampOn(true) has been invoked while the color channel was on.
C6_Witness ==
  \E c \in DOMAIN calls :
    /\ calls[c].op = "setLampOn" /\ calls[c].arg = TRUE
    /\ calls[c].colorOnAtCall
    /\ light.colorOn

\* The channel an off-command of call c must carry.
OffChannel(c) == IF calls[c].colorOnAtCall THEN 2 ELSE 1

\* C7: setLampOn(false) hands exactly one command to send(), the
\* off-command [0, 53, channel, 0, 85] with channel 2 if colorOn was true at
\* the call and 1 otherwise; at most one frame of it reaches the transport,
\* carrying [4, 53, channel, checksum, 85]; and the invocation leaves whiteOn
\* and colorOn false.
C7_OffCommandChannel ==
  /\ [](\A c \in DOMAIN calls :
          (calls[c].op = "setLampOn" /\ calls[c].arg = FALSE) =>
            /\ Len(calls[c].emitted) = 1
            /\ calls[c].emitted[1].bytes = <<0, 53, OffChannel(c), 0, 85>>
            /\ Cardinality({i \in DOMAIN transport :
                              transport[i].by = calls[c].emitted[1].id}) <= 1
            /\ calls[c].pc = "done" =>
                 Cardinality({i \in DOMAIN transport :
                                transport[i].by = calls[c].emitted[1].id}) = 1
            /\ \A i \in DOMAIN transport :
                 transport[i].by = calls[c].emitted[1].id =>
                   /\ Len(transport[i].frame) = 13
                   /\ transport[i].frame[7] = 4
                   /\ transport[i].frame[8] = 53
                   /\ transport[i].frame[9] = OffChannel(c)
                   /\ transport[i].frame[11] = 85)
  /\ [][(Invoked("setLampOn") /\ calls'[Len(calls')].arg = FALSE)
          => ~light'.whiteOn /\ ~light'.colorOn]_vars

\* An off-command for the color channel and one for the white channel have
\* both reached the transport.
C7_Witness ==
  \E c1, c2 \in DOMAIN calls :
    /\ calls[c1].op = "setLampOn" /\ calls[c1].arg = FALSE
    /\ calls[c1].colorOnAtCall
    /\ calls[c2].op = "setLampOn" /\ calls[c2].arg = FALSE
    /\ ~calls[c2].colorOnAtCall
    /\ \E i, j \in DOMAIN transport :
         /\ transport[i].by = calls[c1].emitted[1].id /\ transport[i].frame[9] = 2
         /\ transport[j].by = calls[c2].emitted[1].id /\ transport[j].frame[9] = 1

\* C8: a notification whose byte 8 is 2 sets colorBrightness, colorOn, hue
\* and saturation from the frame and leaves every other lamp field, whiteOn
\* and whiteBrightness among them, unchanged; any other notification sets
\* whiteBrightness and whiteOn and leaves colorOn, colorBrightness, hue and
\* saturation unchanged.
C8_NotificationRouting ==
  [][\A data \in NotifFrames :
       NotificationWith(data) =>
         IF data[8] = 2
         THEN /\ light'.colorBrightness = data[10]
              /\ light'.colorOn = (data[9] = 1)
              /\ <<light'.hue, light'.saturation>> =
                   <<rgbToHsl(data[13], data[14], data[15])[1],
                     rgbToHsl(data[13], data[14], data[15])[2]>>
              /\ light'.whiteOn = light.whiteOn
              /\ light'.whiteBrightness = light.whiteBrightness
              /\ light'.whichLampToControl = light.whichLampToControl
         ELSE /\ light'.whiteBrightness = data[10]
              /\ light'.whiteOn = (data[9] = 1)
              /\ light'.colorOn = light.colorOn
              /\ light'.colorBrightness = light.colorBrightness
              /\ light'.hue = light.hue
              /\ light'.saturation = light.saturation
              /\ light'.whichLampToControl = light.whichLampToControl]_vars

\* A color-channel notification reporting the channel on has been decoded
\* while the white channel was on.
C8_Witness ==
  /\ env.notifs = 1
  /\ light.colorOn /\ light.colorBrightness = 30 /\ light.hue = 240
  /\ light.whiteOn /\ light.whiteBrightness = 50

\* The send() writes and notifications so far: the events that reset the
\* idle timer's deadline.
Resets ==
  Cardinality({i \in DOMAIN transport : transport[i].by # 0}) + env.notifs

MaxResets == 2 * MaxCalls + MaxEnv

\* CONNECTED: the link is open, connected is set, the control handle and
\* the notify subscription are those of this link, and no connect() is
\* under way.
Connected ==
  /\ light.connected
  /\ link.open
  /\ light.lampControl = link.epoch
  /\ link.notify = link.epoch
  /\ \A o \in Owners :
       ConnOf(World, o).pc \notin {"opening", "discovering", "subscribing"}

\* C4: whenever the connection is CONNECTED, also right after the connect
\* that setPeripheral starts, and no further send() write or notification
\* occurs, the idle timer fires and connected eventually becomes false.
C4_ConnectedEventuallyIdles ==
  \A n \in 0..MaxResets :
    (Connected /\ Resets = n) ~> (~light.connected \/ Resets # n)

ConnectErrors == {"ConnectError", "DiscoveryError", "MissingCharacteristics"}

\* A step in which a connect() rejected: the one setPeripheral started, or
\* one whose error threw out of the handler awaiting it.
ConnectFailed ==
  \/ attach.pc # "rejected" /\ attach'.pc = "rejected"
  \/ \E c \in DOMAIN calls :
       /\ calls[c].pc # "failed"
       /\ calls'[c].pc = "failed"
       /\ calls'[c].err \in ConnectErrors

\* C9: when connect() fails (link open, discovery, missing characteristic)
\* connected is false afterwards.
C9_FailedConnectLeavesDisconnected ==
  [][ConnectFailed => ~light'.connected]_vars

\* C10: while no peripheral is attached, a send() fails with the
\* no-peripheral error of its connect(), arms no idle timer and attempts no
\* transport write.
C10_NoPeripheralError ==
  ~light.peripheral =>
    /\ timers = {}
    /\ light.connectionTimeoutToken = 0
    /\ transport = <<>>
    /\ \A c \in DOMAIN calls :
         calls[c].pc = "failed" => calls[c].err = "NoPeripheralError"

\* Bit k of byte a.
BitOf(a, k) == (a \div (2 ^ k)) % 2

\* Bit k of the XOR of the bytes of seq: the parity of their bits k.
ParityBit(seq, k) == Cardinality({i \in DOMAIN seq : BitOf(seq[i], k) = 1}) % 2

XorOf(seq) ==
  ParityBit(seq, 0) + 2 * ParityBit(seq, 1) + 4 * ParityBit(seq, 2)
  + 8 * ParityBit(seq, 3) + 16 * ParityBit(seq, 4) + 32 * ParityBit(seq, 5)
  + 64 * ParityBit(seq, 6) + 128 * ParityBit(seq, 7)

\* C11: for a payload p of n bytes getBytes(p) is the header
\* [254, 239, 10, n + 4, 171, 170], then p with byte 0 replaced by n - 1 and
\* byte n - 2 replaced by the XOR of bytes 0 .. n - 3 of the result, then
\* [13, 10]; [0, 55, 1, 0, 85] gets byte 0 = 4, and the payloads
\* [0, 48, 1, 0, 85] and [0, 48, 2, 0, 85] give the two status-request frames.
C11_Framing ==
  framed # <<>> =>
    LET n == Len(input)
    IN /\ Len(framed) = n + 8
       /\ SubSeq(framed, 1, 6) = <<254, 239, 10, n + 4, 171, 170>>
       /\ SubSeq(framed, n + 7, n + 8) = <<13, 10>>
       /\ framed[7] = n - 1
       /\ \A i \in 2..n : i # n - 1 => framed[6 + i] = input[i]
       /\ framed[6 + n - 1] = XorOf(<<n - 1>> \o SubSeq(input, 2, n - 2))
       /\ input = <<0, 55, 1, 0, 85>> => framed[7] = 4
       /\ input = <<0, 48, 1, 0, 85>> => framed = whiteStatusCmd
       /\ input = <<0, 48, 2, 0, 85>> => framed = colorStatusCmd

\* getBytes has framed the white status request.
C11_Witness == input = <<0, 48, 1, 0, 85>> /\ framed = whiteStatusCmd

\* C12: the brightness getBrightness returns is that of the channel that is
\* on, the white channel's when neither is; and the Brightness that a
\* notification makes updateHomeKitState push equals what getBrightness
\* returns in the state the notification leaves. Stated for the states in
\* which at most one channel is on.
C12_VisibleBrightness ==
  /\ [](~(light.whiteOn /\ light.colorOn) =>
         getBrightness(light) = IF light.colorOn THEN light.colorBrightness
                                ELSE light.whiteBrightness)
  /\ [][(NotifHandled /\ ~(light'.whiteOn /\ light'.colorOn))
          => homekit'.Brightness = getBrightness(light')]_vars

\* A step in which setPeripheral ran.
Attached == ~light.peripheral /\ light'.peripheral

\* setPeripheral changed no field of the object but peripheral, nothing of
\* the link, of the idle timer, of the transport or of the handlers.
RecordsOnly ==
  /\ light' = [light EXCEPT !.peripheral = TRUE]
  /\ UNCHANGED <<link, timers, transport, calls, nsends, sinceReset, homekit>>

\* C13 as claimed: setPeripheral only records the handle; it changes nothing
\* of the connection and issues no transport operation (no connect() is
\* started).
C13_AttachOnlyRecords ==
  [][Attached => (RecordsOnly /\ attach' = attach)]_vars

\* C13 amended: setPeripheral records the handle and starts connect(), whose
\* peripheral.connect is then under way; within the call nothing else
\* changes (connected stays false, the link is not yet open, no frame is
\* written).
C13_AttachStartsConnect ==
  [][Attached => (RecordsOnly /\ attach.pc = "none" /\ attach'.pc = "opening")]_vars

\* setPeripheral has run and its connect() waits for the link to open.
C13_Witness ==
  /\ light.peripheral /\ attach.pc = "opening"
  /\ ~light.connected /\ ~link.open /\ transport = <<>>

\* C14: the command frames are on the transport in the order in which
\* their send() calls were issued (send ids count the invocations).
C14_IssueOrder ==
  \A i, j \in DOMAIN transport :
    (i < j /\ transport[i].by # 0 /\ transport[j].by # 0)
      => transport[i].by < transport[j].by

\* C15: every write to the control characteristic happens while connected
\* is true and lampControl is the handle that the discovery of the open link
\* returned. Stated for the writes that a send() makes in the step of its
\* invocation (it found the guard of line 303 satisfied) while the link is
\* open, once the connect() that setPeripheral started has resolved.
C15_WritesOnlyWhileConnected ==
  [][(/\ attach.pc = "resolved"
      /\ Len(calls') = Len(calls) + 1
      /\ SendWrote
      /\ link'.open)
       => /\ light'.connected
          /\ light'.lampControl # 0
          /\ light'.lampControl = link'.epoch]_vars

\* The color-enable frames on the transport.
EnableFrames ==
  {i \in DOMAIN transport : transport[i].frame = getBytes(<<4, 55, 2, 0, 85>>)}

\* C16: two set handlers never interleave their read-modify-write: when
\* setHue / setSaturation were invoked twice from a lamp with colorOn false
\* (no notification in between) and both have returned, the transport holds
\* what running them one after the other gives; in particular the
\* color-enable frame was written exactly once.
C16_EnableOnce ==
  (/\ Len(calls) = 2
   /\ \A c \in DOMAIN calls :
        calls[c].op \in {"setHue", "setSaturation"} /\ calls[c].pc = "done"
   /\ ~calls[1].colorOnAtCall
   /\ env.notifs = 0)
    => Cardinality(EnableFrames) = 1

\* A step in which the connect() of owner o resolved.
ConnResolved(o) ==
  IF o = 0
  THEN attach.pc # "resolved" /\ attach'.pc = "resolved"
  ELSE calls[o].send.conn.pc # "resolved" /\ calls'[o].send.conn.pc = "resolved"

\* C17: the step in which a connect() resolves (the 'notify' event after the
\* subscription) appends to the transport exactly the white and then the
\* color status request; the only frame that may follow them in that step
\* is the command frame of the send() that awaited this connect().
C17_StatusRequestsOnConnect ==
  [][\A o \in Owners :
       ConnResolved(o) =>
         LET n == Len(transport)
         IN /\ Len(transport') >= n + 2
            /\ SubSeq(transport', 1, n) = transport
            /\ transport'[n + 1] = [frame |-> whiteStatusCmd, by |-> 0]
            /\ transport'[n + 2] = [frame |-> colorStatusCmd, by |-> 0]
            /\ \A i \in (n + 3)..Len(transport') :
                 o # 0 /\ transport'[i].by = calls[o].send.id]_vars

\* A lazy reconnect has resolved: the two status requests are on the
\* transport right before the command frame of the send() that reconnected.
C17_Witness ==
  \E c \in DOMAIN calls, i \in DOMAIN transport :
    /\ calls[c].send.conn.pc = "resolved"
    /\ link.epoch >= 2
    /\ i + 2 <= Len(transport)
    /\ transport[i] = [frame |-> whiteStatusCmd, by |-> 0]
    /\ transport[i + 1] = [frame |-> colorStatusCmd, by |-> 0]
    /\ transport[i + 2].by = calls[c].send.id

\* Call c is a setHue or a setSaturation.
SetsColor(c) == calls[c].op \in {"setHue", "setSaturation"}

EnablePayload == <<4, 55, 2, 0, 85>>

\* The RGB command for the hue and saturation of lamp l.
RgbPayload(l) == <<0, 50>> \o hslToRgb(l.hue, l.saturation) \o <<0, 85>>

RejectionsAt(pc) ==
  IF pc = "opening" THEN {"ConnectError"}
  ELSE IF pc = "discovering" THEN {"DiscoveryError", "MissingCharacteristics"}
  ELSE {}

\* A step in which the connect() that the send() of call c awaits rejected.
LazyConnectFailed(c) ==
  /\ calls[c].send.pc = "connecting"
  /\ calls[c].send.conn.pc \in {"opening", "discovering", "subscribing"}
  /\ calls'[c].pc = "failed"

\* C19: when the connect() that a send() awaits rejects, the send() and the
\* handler fail with that error, the send() has written no frame, the idle
\* timer is neither armed nor reset, and nothing is retried: the send() made
\* that one connect() and the handler makes no further send().
C19_FailedLazyConnect ==
  [][\A c \in DOMAIN calls :
       LazyConnectFailed(c) =>
         /\ calls'[c].err \in RejectionsAt(calls[c].send.conn.pc)
         /\ \A i \in DOMAIN transport' : transport'[i].by # calls[c].send.id
         /\ timers' = timers
         /\ light'.connectionTimeoutToken = light.connectionTimeoutToken
         /\ sinceReset' = sinceReset
         /\ calls[c].send.nconn = 1
         /\ calls'[c].emitted = calls[c].emitted
         /\ calls'[c].send = NoSend
         /\ nsends' = nsends]_vars

\* A handler has failed with the error of its lazy connect(): nothing of the
\* handler is on the transport and no idle timer was ever armed.
C19_Witness ==
  \E c \in DOMAIN calls :
    /\ calls[c].pc = "failed" /\ calls[c].err \in ConnectErrors
    /\ \A i \in DOMAIN transport, k \in DOMAIN calls[c].emitted :
         transport[i].by # calls[c].emitted[k].id
    /\ timers = {} /\ light.connectionTimeoutToken = 0

\* The lamp-state fields of world W.
LampState(W) ==
  <<W.light.whiteOn, W.light.whiteBrightness, W.light.colorOn,
    W.light.colorBrightness, W.light.hue, W.light.saturation>>

WhiteFrames == {d \in NotifFrames : d[8] # 2}
ColorFrames == {d \in NotifFrames : d[8] = 2}

\* C20: in every reachable state, handling a notification frame twice leaves
\* the lamp state that handling it once leaves, and handling a white-channel
\* frame and a color-channel frame leaves the same lamp state in either
\* order.
C20_DecoderIdempotentCommutes ==
  /\ \A d \in NotifFrames :
       LampState(handleNotification(handleNotification(World, d), d))
         = LampState(handleNotification(World, d))
  /\ \A w \in WhiteFrames, c \in ColorFrames :
       LampState(handleNotification(handleNotification(World, w), c))
         = LampState(handleNotification(handleNotification(World, c), w))

\* A notification has been handled, and another frame of either channel
\* would change the lamp state it left.
C20_Witness ==
  /\ env.notifs >= 1
  /\ homekit.pushed
  /\ \E w \in WhiteFrames, c \in ColorFrames :
       /\ LampState(handleNotification(World, w)) # LampState(World)
       /\ LampState(handleNotification(World, c)) # LampState(World)

====
